---- MODULE Spec2Model ----
(***************************************************************************)
(* Model of refractor.go: the request router (ServeHTTP), the single-      *)
(* stream fetcher (handlePlain), the parallel chunked fetcher              *)
(* (handleRefracted), the retry engine (retryRequest) and one fetch        *)
(* attempt (request) with its pooled buffer.                               *)
(*                                                                         *)
(* One client request is served per behaviour.  The resource held by the   *)
(* mirrors has Size bytes; byte k of the resource is represented by its    *)
(* offset k, so every byte of the resource is distinguishable.             *)
(***************************************************************************)
EXTENDS Integers, Sequences, FiniteSets, TLC

\* ---------------------------------------------------------------- bounds
MaxSize == 5          \* resource sizes 0..MaxSize
MaxChunkSize == 2     \* Config.ChunkSize ranges over 1..MaxChunkSize
MaxBuffers == 3       \* buffers sync.Pool.New may allocate in one behaviour
MaxQuerySize == 1     \* resource sizes 0..MaxQuerySize for URLs with a query
MaxFairSize == 3      \* resource sizes 0..MaxFairSize under FairSpec

\* ------------------------------------------------------ program constants
retries == 5
StatusOK == 200
StatusPartialContent == 206
StatusNotFound == 404
StatusInternalServerError == 500
StatusBadGateway == 502

\* Task 0 is the first engine invocation of a handler (the HEAD probe of
\* handleRefracted, the GET of handlePlain); tasks 1.. are the chunk fetches.
\* Every chunk holds at least one byte, so MaxSize tasks are enough.
Tasks == 0..MaxSize
Buffers == 1..MaxBuffers
NoBuf == 0

Min(a, b) == IF a < b THEN a ELSE b

\* The bytes lo..hi of the resource (empty when hi < lo).
Bytes(lo, hi) == [k \in 1..(hi - lo + 1) |-> lo + k - 1]

\* A URL is its path and its query, each a sequence of pieces; r.URL.String()
\* is the one followed by the other.
URLString(u) == u.path \o u.query

\* strings.HasSuffix(s, t)
HasSuffix(s, t) ==
    /\ Len(t) <= Len(s)
    /\ SubSeq(s, Len(s) - Len(t) + 1, Len(s)) = t

SigSuffix == <<".db", ".sig">>
DbSuffix == <<".db">>

\* The requests a client may send: a package, a database, a database
\* signature, and the last two with a query string.
URLs ==
    { [path |-> <<"/pkg">>, query |-> <<>>],
      [path |-> <<"/core", ".db">>, query |-> <<>>],
      [path |-> <<"/core", ".db", ".sig">>, query |-> <<>>],
      [path |-> <<"/core", ".db">>, query |-> <<"?q">>],
      [path |-> <<"/core", ".db", ".sig">>, query |-> <<"?q">>] }

\* The branch ServeHTTP takes for the URL string s.
Route(s) ==
    IF HasSuffix(s, SigSuffix) THEN "sig"
    ELSE IF HasSuffix(s, DbSuffix) THEN "db"
    ELSE "other"

VARIABLES
    url,               \* input: r.URL of the client request
    urlValid,          \* input: whether http.NewRequest accepts the URL
    Size,              \* input: size of the resource on the mirrors
    ChunkSize,         \* input: rf.ChunkSize
    hpc,               \* position of the handler goroutine
    status,            \* status committed to the client, 0 = none yet
    contentLength,     \* content-length header set on rw, -1 = unset
    written,           \* body bytes written to the client, in order
    size,              \* handleRefracted: br.response.ContentLength
    start,             \* handleRefracted: loop variable start
    responseChannels,  \* handleRefracted: task of each launched channel
    idx,               \* handleRefracted: position of the range loop
    cur,               \* result received from the channel being handled
    tpc,               \* position of each fetch goroutine
    try,               \* retryRequest: try of each fetch goroutine
    req,               \* the *http.Request of each fetch goroutine
    tbuf,              \* request(): buf of the attempt in progress
    res,               \* the responseErr a goroutine is sending on respChan
    bufState,          \* sync.Pool: "new", "pooled", "loaned", "dropped"
                       \* (dropped: taken from the pool, never Put, garbage)
    bufData,           \* contents of each live bytes.Buffer
    badPut,            \* history: a buffer was Put while not on loan
    abort,             \* history: why the handler stopped early, or "none"
    overtaken,         \* history: a chunk fetch completed before an earlier one
    called,            \* history: the kinds of request given to rf.Pool.Do
    sent,              \* history: values received from each goroutine's channel
    tresp,             \* request(): response.StatusCode of the attempt in progress
    deadline,          \* request(): ctx of the attempt whose body is being copied:
                       \* "armed", or "closed" once the deadline has passed and
                       \* the watcher has closed the body; "none" otherwise
    zombies            \* some watcher of a returned attempt has yet to run

vars == <<url, urlValid, Size, ChunkSize, hpc, status, contentLength,
          written, size, start, responseChannels, idx, cur, tpc, try, req,
          tbuf, res, bufState, bufData, badPut, abort, overtaken, called,
          sent, tresp, deadline, zombies>>

inputs == <<url, urlValid, Size, ChunkSize>>

\* url := r.URL.String() and the branch taken on it.
suffix == Route(URLString(url))
hvars == <<hpc, status, contentLength, written, size, start,
           responseChannels, idx, cur, abort>>
tvars == <<tpc, try, req, tbuf, res, overtaken, called, sent, tresp,
           deadline, zombies>>
bvars == <<bufState, bufData, badPut>>

NoReq == [method |-> "none", lo |-> -1, hi |-> -1]
NoRes == [err |-> "none", buf |-> NoBuf, cl |-> -1, st |-> 0, body |-> "none"]

\* http.NewRequest(method, url, nil) followed by the headers the handler adds;
\* lo = -1 stands for "no range header".
NewRequest(method, lo, hi) == [method |-> method, lo |-> lo, hi |-> hi]

HasRange(r) == r.lo # -1

Init ==
    /\ url \in URLs
    /\ urlValid \in BOOLEAN
    /\ Size \in 0..(IF url.query = <<>> THEN MaxSize ELSE MaxQuerySize)
    /\ ChunkSize \in 1..MaxChunkSize
    /\ hpc = "ServeHTTP"
    /\ status = 0
    /\ contentLength = -1
    /\ written = <<>>
    /\ size = 0
    /\ start = 0
    /\ responseChannels = <<>>
    /\ idx = 0
    /\ cur = NoRes
    /\ tpc = [i \in Tasks |-> "idle"]
    /\ try = [i \in Tasks |-> 0]
    /\ req = [i \in Tasks |-> NoReq]
    /\ tbuf = [i \in Tasks |-> NoBuf]
    /\ res = [i \in Tasks |-> NoRes]
    /\ bufState = [b \in Buffers |-> "new"]
    /\ bufData = [b \in Buffers |-> <<>>]
    /\ badPut = FALSE
    /\ abort = "none"
    /\ overtaken = FALSE
    /\ called = {}
    /\ sent = [i \in Tasks |-> 0]
    /\ tresp = [i \in Tasks |-> 0]
    /\ deadline = [i \in Tasks |-> "none"]
    /\ zombies = FALSE

\* ------------------------------------------------------------ Mirror Pool
\* rf.Pool.Do(r) is an external collaborator: it may fail (transport error,
\* or the attempt's deadline expiring first) or return a response with any
\* of these statuses.
DoErrors == {"transport", "timeout"}
Statuses == {StatusOK, StatusPartialContent, StatusNotFound}

\* The body a mirror serves for r: the whole resource, or the requested
\* inclusive range cut at the end of the resource.
MirrorBody(r) ==
    IF HasRange(r) THEN Bytes(r.lo, Min(r.hi, Size - 1))
                   ELSE Bytes(0, Size - 1)

\* ------------------------------------------------------ request(), one try
\* A variant that expects 200 of every request.
ExpectedStatusAlwaysOK(r) == StatusOK

ExpectedStatus(r) ==
    IF HasRange(r) THEN StatusPartialContent ELSE StatusOK

\* A variant of request() without the length check.
LengthMismatchIgnored(n, cl) == FALSE

\* if n != response.ContentLength
LengthMismatch(n, cl) == n # cl

\* ctx, cancel := context.WithTimeout(context.Background(), rf.ChunkTimeout):
\* every attempt starts with a deadline of its own.
NewDeadline == "armed"

\* The errors io.Copy(buf, body) may return: a transport error while the body
\* is open, the read of a closed body once the watcher has closed it.
CopyErrors(d) == IF d = "closed" THEN {"timeout"} ELSE {"none", "copy"}

\* A variant of request() that returns the response with the upstream body.
SuccessBodyUpstream == "upstream"

\* response.Body = &stats.ReaderWrapper{Underlying: buf, ...}
SuccessBody == "buffer"

\* What a reader of the body of response r gets: the contents of the pooled
\* buffer, or nothing from an upstream body, which request() has closed on
\* its return (and the watcher closes again).
BodyBytes(r) == IF r.body = "buffer" THEN bufData[r.buf] ELSE <<>>

\* buf.Reset()
Reset(data) == <<>>

\* rf.buffers.Get(): any pooled buffer, or a new one from sync.Pool.New
\* (buffers are allocated in the order of their numbers).
Gettable(b) ==
    \/ bufState[b] = "pooled"
    \/ /\ bufState[b] = "new"
       /\ \A c \in Buffers : c < b => bufState[c] # "new"

\* OnDone: rf.buffers.Put(buf)
Put(bs, b) == [bs EXCEPT ![b] = "pooled"]

\* stats.ReaderWrapper calls OnDone once the reader has been read to its end.
ReaderWrapperDone(n, len) == n = len

\* ------------------------------------------------------- retryRequest loop
\* A variant of the retry test that allows one attempt too many.
CanRetryOnceMore(t) == t <= retries

\* if try < retries { continue }
CanRetry(t) == t < retries

\* responseErr{err: err}
Failure(kind) == [NoRes EXCEPT !.err = kind]

\* A variant of the loop that returns after its last attempt without a send.
AttemptFailsSilently(i, t, kind) ==
    IF CanRetry(t)
    THEN /\ tpc' = [tpc EXCEPT ![i] = "request"]
         /\ res' = res
    ELSE /\ tpc' = [tpc EXCEPT ![i] = "done"]
         /\ res' = res

\* A variant of the loop that gives up at once when an attempt timed out.
AttemptFailsTimeoutFatal(i, t, kind) ==
    IF CanRetry(t) /\ kind # "timeout"
    THEN /\ tpc' = [tpc EXCEPT ![i] = "request"]
         /\ res' = res
    ELSE /\ tpc' = [tpc EXCEPT ![i] = "send"]
         /\ res' = [res EXCEPT ![i] = Failure(kind)]

\* The attempt of goroutine i, its try-th, returned the error kind.
AttemptFails(i, t, kind) ==
    IF CanRetry(t)
    THEN /\ tpc' = [tpc EXCEPT ![i] = "request"]
         /\ res' = res
    ELSE /\ tpc' = [tpc EXCEPT ![i] = "send"]
         /\ res' = [res EXCEPT ![i] = Failure(kind)]

\* History: goroutine i has its result while an earlier chunk's has not.
Overtakes(i) ==
    /\ tpc'[i] = "send"
    /\ \E j \in 1..(i - 1) : tpc[j] \in {"request", "copy"}

\* The kind of the request r: the probe, a chunk, or a whole resource.
Kind(r) ==
    IF r.method = "HEAD" THEN "HEAD"
    ELSE IF HasRange(r) THEN "RANGE"
    ELSE "GET"

\* try++, rf.request(r) up to the point where the body copy starts.
TaskRequest(i) ==
    /\ tpc[i] = "request"
    /\ try' = [try EXCEPT ![i] = try[i] + 1]
    /\ called' = called \cup {Kind(req[i])}
    /\ \/ \E kind \in DoErrors :
            /\ AttemptFails(i, try[i] + 1, kind)
            /\ UNCHANGED <<tbuf, bvars, tresp, deadline>>
       \/ \E st \in Statuses :
            IF st # ExpectedStatus(req[i])
            THEN /\ AttemptFails(i, try[i] + 1, "status")
                 /\ UNCHANGED <<tbuf, bvars, tresp, deadline>>
            ELSE IF req[i].method = "HEAD"
            THEN /\ tpc' = [tpc EXCEPT ![i] = "send"]
                 /\ res' = [res EXCEPT ![i] =
                               [err |-> "none", buf |-> NoBuf, cl |-> Size,
                                st |-> st, body |-> "upstream"]]
                 /\ UNCHANGED <<tbuf, bvars, tresp, deadline>>
            ELSE \E b \in Buffers :
                 /\ Gettable(b)
                 /\ bufState' = [bufState EXCEPT ![b] = "loaned"]
                 /\ bufData' = [bufData EXCEPT ![b] = Reset(bufData[b])]
                 /\ tbuf' = [tbuf EXCEPT ![i] = b]
                 /\ tresp' = [tresp EXCEPT ![i] = st]
                 /\ deadline' = [deadline EXCEPT ![i] = NewDeadline]
                 /\ tpc' = [tpc EXCEPT ![i] = "copy"]
                 /\ UNCHANGED <<res, badPut>>
    /\ overtaken' = (overtaken \/ Overtakes(i))
    /\ UNCHANGED <<inputs, hvars, req, sent, zombies>>

\* The deadline of the attempt of goroutine i passes while its body is being
\* copied: ctx.Done() is closed, and the watcher closes the body and returns.
DeadlineExpires(i) ==
    /\ tpc[i] = "copy"
    /\ deadline[i] = "armed"
    /\ deadline' = [deadline EXCEPT ![i] = "closed"]
    /\ UNCHANGED <<inputs, hvars, bvars, tpc, try, req, tbuf, res, overtaken,
                   called, sent, tresp, zombies>>

\* The watchers of returned attempts, woken by the deferred cancel(), close
\* the body once more and return.
WatchersExit ==
    /\ zombies
    /\ zombies' = FALSE
    /\ UNCHANGED <<inputs, hvars, bvars, tpc, try, req, tbuf, res, overtaken,
                   called, sent, tresp, deadline>>

\* n, err := io.Copy(buf, body), the length check, and the return of request()
\* with its deferred cancel().  e is the error of the copy ("timeout": the
\* watcher closed the body at the deadline), n the number of bytes that
\* reached the buffer.
TaskCopy(i) ==
    /\ tpc[i] = "copy"
    /\ LET b == tbuf[i]
           body == MirrorBody(req[i])
           cl == Len(body)
       IN \E n \in 0..cl, e \in CopyErrors(deadline[i]) :
            /\ bufData' = [bufData EXCEPT ![b] =
                              IF e = "none" /\ ~LengthMismatch(n, cl)
                              THEN bufData[b] \o SubSeq(body, 1, n)
                              ELSE <<>>]
            /\ tbuf' = [tbuf EXCEPT ![i] = NoBuf]
            /\ IF e # "none"
               THEN /\ AttemptFails(i, try[i], e)
                    /\ bufState' = [bufState EXCEPT ![b] = "dropped"]
               ELSE IF LengthMismatch(n, cl)
               THEN /\ AttemptFails(i, try[i], "truncated")
                    /\ bufState' = [bufState EXCEPT ![b] = "dropped"]
               ELSE /\ tpc' = [tpc EXCEPT ![i] = "send"]
                    /\ res' = [res EXCEPT ![i] =
                                  [err |-> "none", buf |-> b, cl |-> cl,
                                   st |-> tresp[i], body |-> SuccessBody]]
                    /\ UNCHANGED bufState
    /\ tresp' = [tresp EXCEPT ![i] = 0]
    /\ zombies' = (zombies \/ deadline[i] = "armed")
    /\ deadline' = [deadline EXCEPT ![i] = "none"]
    /\ overtaken' = (overtaken \/ Overtakes(i))
    /\ UNCHANGED <<inputs, hvars, try, req, badPut, called, sent>>

\* retryRequest(r): make the channel and start the goroutine of task i.
Launch(i, r) ==
    /\ tpc' = [tpc EXCEPT ![i] = "request"]
    /\ req' = [req EXCEPT ![i] = r]
    /\ UNCHANGED <<try, tbuf, res, overtaken, called, sent, tresp, deadline,
                   zombies>>

\* A variant of the goroutine that goes round its loop again after sending.
AfterSendLoop == "request"

\* respChan <- responseErr{...}; return
AfterSend == "done"

\* responseErr := <-rc, the rendezvous with the goroutine of task i: the value
\* passes to the receiver and the goroutine returns (its locals are gone).
Receive(i) ==
    /\ tpc[i] = "send"
    /\ cur' = res[i]
    /\ sent' = [sent EXCEPT ![i] = sent[i] + 1]
    /\ tpc' = [tpc EXCEPT ![i] = AfterSend]
    /\ res' = [res EXCEPT ![i] = NoRes]
    /\ try' = [try EXCEPT ![i] = 0]
    /\ UNCHANGED <<req, tbuf, overtaken, called, tresp, deadline, zombies>>

\* ------------------------------------------------------- http.ResponseWriter
\* rw.WriteHeader(code): only the first status is committed.
WriteHeader(st, code) == IF st = 0 THEN code ELSE st
\* The first rw.Write commits 200 when no status was written before.
WriteCommits(st) == WriteHeader(st, StatusOK)
\* The handler returns: the server commits 200 when nothing was written.
Returned(st) == WriteHeader(st, StatusOK)

\* io.Copy(rw, body): the bytes appended to what the client has received.
ClientCopy(w, body) == w \o body

\* The outcome of reading buffer b up to byte n of it and handing the bytes
\* to the client; the buffer goes back to the pool when it was read to its end.
Drain(b, n) ==
    /\ written' = ClientCopy(written, SubSeq(BodyBytes(cur), 1, n))
    /\ IF ReaderWrapperDone(n, Len(bufData[b]))
       THEN /\ bufState' = Put(bufState, b)
            /\ bufData' = [bufData EXCEPT ![b] = <<>>]
            /\ badPut' = (badPut \/ bufState[b] # "loaned")
       ELSE /\ bufState' = [bufState EXCEPT ![b] = "dropped"]
            /\ bufData' = [bufData EXCEPT ![b] = <<>>]
            /\ UNCHANGED badPut

\* ------------------------------------------------------------- ServeHTTP
ServeSig ==
    /\ hpc = "ServeHTTP"
    /\ suffix = "sig"
    /\ status' = WriteHeader(status, StatusNotFound)
    /\ hpc' = "done"
    /\ UNCHANGED <<inputs, contentLength, written, size, start,
                   responseChannels, idx, cur, abort, tvars, bvars>>

\* ------------------------------------------------------------ handlePlain
ServePlain ==
    /\ hpc = "ServeHTTP"
    /\ suffix = "db"
    /\ IF ~urlValid
       THEN /\ status' = WriteHeader(status, StatusInternalServerError)
            /\ hpc' = "done"
            /\ abort' = "url"
            /\ UNCHANGED tvars
       ELSE /\ Launch(0, NewRequest("GET", -1, -1))
            /\ hpc' = "plainRecv"
            /\ UNCHANGED <<status, abort>>
    /\ UNCHANGED <<inputs, contentLength, written, size, start,
                   responseChannels, idx, cur, bvars>>

\* A variant of the failure answer of handlePlain with the status of a local
\* failure.
PlainFailureAs500(st) == WriteHeader(st, StatusInternalServerError)

\* rw.WriteHeader(http.StatusBadGateway)
PlainFailure(st) == WriteHeader(st, StatusBadGateway)

PlainRecv ==
    /\ hpc = "plainRecv"
    /\ Receive(0)
    /\ IF res[0].err # "none"
       THEN /\ status' = PlainFailure(status)
            /\ hpc' = "done"
            /\ abort' = "fetch"
       ELSE /\ hpc' = "plainCopy"
            /\ UNCHANGED <<status, abort>>
    /\ UNCHANGED <<inputs, contentLength, written, size, start,
                   responseChannels, idx, bvars>>

PlainCopy ==
    /\ hpc = "plainCopy"
    /\ \E n \in 0..Len(bufData[cur.buf]) :
         /\ Drain(cur.buf, n)
         /\ abort' = IF n = Len(bufData[cur.buf]) THEN abort ELSE "write"
    /\ status' = Returned(status)
    /\ hpc' = "done"
    /\ UNCHANGED <<inputs, contentLength, size, start, responseChannels,
                   idx, cur, tvars>>

\* -------------------------------------------------------- handleRefracted
\* The partitioning loop: for start < size
LoopContinues(s, sz) == s < sz

\* end := start + rf.ChunkSize; if end > size { end = size }
ChunkEnd(s, sz, c) == IF s + c > sz THEN sz ELSE s + c

\* Variants of the next start: one that repeats the last byte of the chunk,
\* one that skips a byte.
NextStartOverlap(end) == end
NextStartGap(end) == end + 2

\* start = end + 1
NextStart(end) == end + 1

\* A variant of the range loop that walks the channels from the last one.
RecvChannelBackwards(chs, k) == chs[Len(chs) + 1 - k]

\* for _, rc := range responseChannels: the channel read at position k
RecvChannel(chs, k) == chs[k]

\* A variant of the handler that never sets the header.
ContentLengthUnset(sz) == -1

\* rw.Header().Add("content-length", fmt.Sprint(br.response.ContentLength))
ContentLengthHeader(sz) == sz

\* The HEAD request is built and handed to retryRequest.
ServeRefracted ==
    /\ hpc = "ServeHTTP"
    /\ suffix = "other"
    /\ IF ~urlValid
       THEN /\ status' = WriteHeader(status, StatusInternalServerError)
            /\ hpc' = "done"
            /\ abort' = "url"
            /\ UNCHANGED tvars
       ELSE /\ Launch(0, NewRequest("HEAD", -1, -1))
            /\ hpc' = "probeRecv"
            /\ UNCHANGED <<status, abort>>
    /\ UNCHANGED <<inputs, contentLength, written, size, start,
                   responseChannels, idx, cur, bvars>>

\* br := <-rf.retryRequest(headReq); size := br.response.ContentLength.
\* br.err is not looked at: after a failed probe br.response is nil and
\* reading its ContentLength panics.
ProbeRecv ==
    /\ hpc = "probeRecv"
    /\ Receive(0)
    /\ IF res[0].err # "none"
       THEN /\ hpc' = "panic"
            /\ abort' = "probe"
            /\ UNCHANGED <<size, start>>
       ELSE /\ hpc' = "partition"
            /\ size' = res[0].cl
            /\ start' = 0
            /\ UNCHANGED abort
    /\ UNCHANGED <<inputs, status, contentLength, written,
                   responseChannels, idx, bvars>>

\* One iteration of the partitioning loop.
LaunchChunk ==
    /\ hpc = "partition"
    /\ LoopContinues(start, size)
    /\ LET end == ChunkEnd(start, size, ChunkSize)
           i == Len(responseChannels) + 1
       IN /\ i \in Tasks
          /\ IF ~urlValid
             THEN /\ status' = WriteHeader(status, StatusInternalServerError)
                  /\ hpc' = "done"
                  /\ abort' = "url"
                  /\ UNCHANGED <<tvars, responseChannels, start>>
             ELSE /\ Launch(i, NewRequest("GET", start, end))
                  /\ responseChannels' = Append(responseChannels, i)
                  /\ start' = NextStart(end)
                  /\ UNCHANGED <<hpc, status, abort>>
    /\ UNCHANGED <<inputs, contentLength, written, size, idx, cur, bvars>>

\* The loop is over: rw.Header().Add("content-length", ...).
EndPartition ==
    /\ hpc = "partition"
    /\ ~LoopContinues(start, size)
    /\ contentLength' = ContentLengthHeader(size)
    /\ idx' = 1
    /\ hpc' = "reassemble"
    /\ UNCHANGED <<inputs, status, written, size, start, responseChannels,
                   cur, abort, tvars, bvars>>

\* responseErr := <-rc and the check of responseErr.err.
RecvChunk ==
    /\ hpc = "reassemble"
    /\ idx <= Len(responseChannels)
    /\ LET i == RecvChannel(responseChannels, idx)
       IN /\ Receive(i)
          /\ IF res[i].err # "none"
             THEN /\ status' = WriteHeader(status, StatusInternalServerError)
                  /\ hpc' = "done"
                  /\ abort' = "fetch"
             ELSE /\ hpc' = "copy"
                  /\ UNCHANGED <<status, abort>>
    /\ UNCHANGED <<inputs, contentLength, written, size, start,
                   responseChannels, idx, bvars>>

\* io.Copy(rw, responseErr.response.Body), then Body.Close() or the abort.
CopyChunk ==
    /\ hpc = "copy"
    /\ \E n \in 0..Len(bufData[cur.buf]) :
         /\ Drain(cur.buf, n)
         /\ IF n = Len(bufData[cur.buf])
            THEN /\ status' = WriteCommits(status)
                 /\ idx' = idx + 1
                 /\ hpc' = "reassemble"
                 /\ UNCHANGED abort
            ELSE /\ status' = WriteHeader(WriteCommits(status),
                                          StatusInternalServerError)
                 /\ hpc' = "done"
                 /\ abort' = "write"
                 /\ UNCHANGED idx
    /\ UNCHANGED <<inputs, contentLength, size, start, responseChannels,
                   cur, tvars>>

\* The range loop is over and handleRefracted returns.
Return ==
    /\ hpc = "reassemble"
    /\ idx > Len(responseChannels)
    /\ status' = Returned(status)
    /\ hpc' = "done"
    /\ UNCHANGED <<inputs, contentLength, written, size, start,
                   responseChannels, idx, cur, abort, tvars, bvars>>

\* ------------------------------------------------------------------ system
Handler ==
    \/ ServeSig
    \/ ServePlain
    \/ PlainRecv
    \/ PlainCopy
    \/ ServeRefracted
    \/ ProbeRecv
    \/ LaunchChunk
    \/ EndPartition
    \/ RecvChunk
    \/ CopyChunk
    \/ Return

Next ==
    \/ ServeSig
    \/ ServePlain
    \/ PlainRecv
    \/ PlainCopy
    \/ ServeRefracted
    \/ ProbeRecv
    \/ LaunchChunk
    \/ EndPartition
    \/ RecvChunk
    \/ CopyChunk
    \/ Return
    \/ \E i \in Tasks : TaskRequest(i)
    \/ \E i \in Tasks : TaskCopy(i)
    \/ \E i \in Tasks : DeadlineExpires(i)
    \/ WatchersExit

Spec == Init /\ [][Next]_vars

\* The Go scheduler runs every runnable goroutine, and every upstream
\* exchange ends (with a response, an error or the attempt's deadline).
FairInit == Init /\ Size <= MaxFairSize

FairSpec ==
    /\ FairInit
    /\ [][Next]_vars
    /\ WF_vars(Handler)
    /\ \A i \in Tasks : WF_vars(TaskRequest(i)) /\ WF_vars(TaskCopy(i))
    /\ WF_vars(WatchersExit)

\* ================================================================ properties
\* The body of the chunk launched k-th, as its mirror serves it.
ChunkBody(k) == MirrorBody(req[responseChannels[k]])

\* The bodies of the chunks launched first to k-th, one after another.
RECURSIVE ChunkBodies(_)
ChunkBodies(k) == IF k = 0 THEN <<>> ELSE ChunkBodies(k - 1) \o ChunkBody(k)

IsPrefix(p, q) == Len(p) <= Len(q) /\ SubSeq(q, 1, Len(p)) = p

\* The partitioning loop of handleRefracted has run to its end.
Partitioned == suffix = "other" /\ contentLength # -1

CeilDiv(a, b) == (a + b - 1) \div b

\* C1: whatever order the chunk fetches complete in, the client has received
\* the chunk bodies in launch (ascending start) order: all of chunks 1..idx-1
\* while chunk idx is awaited or copied, all chunks after a normal return,
\* and after an abort the chunks before idx plus, when a client write failed,
\* a proper prefix of chunk idx and nothing of any later chunk.
C1_OrderedReassembly ==
    suffix = "other" =>
      /\ \A k \in 1..(Len(responseChannels) - 1) :
           req[responseChannels[k]].lo < req[responseChannels[k + 1]].lo
      /\ hpc \in {"reassemble", "copy"} => written = ChunkBodies(idx - 1)
      /\ (hpc = "copy") =>
           bufData[cur.buf] = ChunkBody(idx)
      /\ (hpc = "done" /\ abort = "none") =>
           written = ChunkBodies(Len(responseChannels))
      /\ (hpc = "done" /\ abort = "fetch") => written = ChunkBodies(idx - 1)
      /\ (hpc = "done" /\ abort = "write") =>
           /\ IsPrefix(ChunkBodies(idx - 1), written)
           /\ IsPrefix(written, ChunkBodies(idx))
           /\ written # ChunkBodies(idx)

\* C1 witness: a later chunk's fetch completed before an earlier chunk's, and
\* the handler has written all three chunks and returned.
C1_Witness ==
    /\ suffix = "other"
    /\ hpc = "done"
    /\ abort = "none"
    /\ overtaken
    /\ Len(responseChannels) = 3
    /\ Len(written) = Size

\* C2: round trip. When the probe, every chunk fetch and every client write
\* succeeded, the client has received the resource exactly, each offset of
\* [0, Size) once and in order, as many bytes as content-length announces.
C2_RoundTrip ==
    (suffix = "other" /\ hpc = "done" /\ abort = "none") =>
      /\ written = Bytes(0, Size - 1)
      /\ Len(written) = contentLength

\* C2 witness: a resource split into several chunks, the last one cut at the
\* end of the resource, was reassembled.
C2_Witness ==
    /\ suffix = "other"
    /\ hpc = "done"
    /\ abort = "none"
    /\ Len(responseChannels) >= 2
    /\ req[responseChannels[Len(responseChannels)]].hi > Size - 1
    /\ written = Bytes(0, Size - 1)

\* C3 (as claimed): once the partitioning loop is over, exactly
\* ceil(Size / ChunkSize) chunk requests were launched, each covering
\* ChunkSize bytes except possibly the last.
C3_ChunkCount ==
    Partitioned =>
      /\ Len(responseChannels) = CeilDiv(Size, ChunkSize)
      /\ \A k \in 1..(Len(responseChannels) - 1) :
           LET r == req[responseChannels[k]]
           IN r.hi - r.lo + 1 = ChunkSize

\* C4 (as claimed): no chunk request names an offset at or past the end of
\* the resource, and the last request ends at Size - 1.
C4_EndClamped ==
    suffix = "other" =>
      /\ \A k \in 1..Len(responseChannels) :
           req[responseChannels[k]].hi <= Size - 1
      /\ (Partitioned /\ Size > 0) =>
           req[responseChannels[Len(responseChannels)]].hi = Size - 1

\* C5: the requested ranges are contiguous and do not overlap: the first
\* starts at 0, every range has start <= end, and every other range starts
\* one past the inclusive end of the range before it.
C5_Contiguous ==
    suffix = "other" =>
      /\ Len(responseChannels) >= 1 => req[responseChannels[1]].lo = 0
      /\ \A k \in 1..Len(responseChannels) :
           req[responseChannels[k]].lo <= req[responseChannels[k]].hi
      /\ \A k \in 1..(Len(responseChannels) - 1) :
           req[responseChannels[k + 1]].lo = req[responseChannels[k]].hi + 1

\* C5 witness: the loop has ended after launching three ranges.
C5_Witness ==
    /\ Partitioned
    /\ Len(responseChannels) = 3
    /\ req[responseChannels[3]].lo = req[responseChannels[2]].hi + 1

\* C6 (as claimed): when a chunk fetch has failed on all its attempts the
\* client sees 502 Bad Gateway, and nothing of the failed chunk or of a later
\* chunk has been written.
C6_ChunkFailure502 ==
    (suffix = "other" /\ hpc = "done" /\ abort = "fetch") =>
      /\ status = StatusBadGateway
      /\ written = ChunkBodies(idx - 1)

\* C7 (as claimed): when the HEAD probe has failed the handler ends normally
\* with 502 Bad Gateway, having launched no chunk request and written no
\* body byte.
C7_ProbeFailure502 ==
    (suffix = "other" /\ abort = "probe") =>
      /\ hpc = "done"
      /\ status = StatusBadGateway
      /\ responseChannels = <<>>
      /\ written = <<>>

\* C8: every goroutine of retryRequest makes at most 5 attempts, one after
\* another: an attempt starts only when none is in progress and nothing has
\* been delivered, a goroutine comes back to the start of the loop only with
\* no response in hand, a failure is delivered only by the 5th attempt, a
\* success by the attempt that obtained it, and once a result is being sent
\* no further attempt is made.
C8_BoundedSequentialRetry ==
    [][\A i \in Tasks :
         /\ try'[i] <= retries
         /\ try'[i] > try[i] =>
              /\ tpc[i] = "request"
              /\ tbuf[i] = NoBuf
              /\ res[i] = NoRes
              /\ try'[i] = try[i] + 1
         /\ (tpc'[i] = "request" /\ try'[i] >= 1) =>
              /\ res'[i] = NoRes
              /\ tbuf'[i] = NoBuf
              /\ try'[i] < retries
         /\ (tpc[i] # "send" /\ tpc'[i] = "send") =>
              /\ try'[i] \in 1..retries
              /\ res'[i].err # "none" => try'[i] = retries
         /\ tpc[i] = "send" =>
              \/ tpc'[i] = "send" /\ try'[i] = try[i] /\ res'[i] = res[i]
              \/ tpc'[i] = "done" /\ cur' = res[i]
         /\ tpc[i] = "done" => tpc'[i] = "done" /\ try'[i] = 0
    ]_vars

\* C8 witness: a goroutine is delivering a failure after its 5th attempt
\* while another one is delivering the success of a later than first attempt.
C8_Witness ==
    \E i, j \in Tasks :
      /\ tpc[i] = "send" /\ res[i].err # "none" /\ try[i] = retries
      /\ tpc[j] = "send" /\ res[j].err = "none" /\ try[j] \in 2..retries

\* The goroutines and responses holding buffer b.
Holders(b) ==
    {<<"attempt", i>> : i \in {j \in Tasks : tbuf[j] = b}}
      \cup {<<"result", i>> : i \in {j \in Tasks : res[j].buf = b}}
      \cup (IF hpc \in {"copy", "plainCopy"} /\ cur.buf = b
            THEN {<<"handler", 0>>}
            ELSE {})

\* C9 (as claimed): every buffer taken from the pool goes back to it exactly
\* once, after its contents were read: none is Put while not on loan, none is
\* held by two fetches or responses at once, a pooled buffer is held by
\* nobody, and none is left un-returned, neither by a failed attempt, nor by
\* an interrupted read, nor by a result that nobody will receive.
C9_BufferDiscipline ==
    /\ ~badPut
    /\ \A b \in Buffers :
         /\ Cardinality(Holders(b)) <= 1
         /\ bufState[b] \in {"new", "pooled"} => Holders(b) = {}
         /\ bufState[b] = "loaned" => Holders(b) # {}
         /\ bufState[b] # "dropped"
    /\ hpc \in {"done", "panic"} =>
         \A i \in Tasks : ~(tpc[i] = "send" /\ res[i].buf # NoBuf)

\* C10 (as claimed): after the reassembly loop has aborted no launched fetch
\* goroutine stays blocked.  A goroutine that is sending on its channel once
\* the handler has returned is blocked for ever: the handler was the only
\* receiver, and the buffer of its response is never read to its end.
C10_SiblingsComplete ==
    (suffix = "other" /\ hpc = "done" /\ abort \in {"fetch", "write"}) =>
      \A i \in Tasks : tpc[i] # "send"

\* The path of the client request ends in t.
PathEndsIn(t) == HasSuffix(url.path, t)

\* C11 (as claimed): a request whose path ends in .db.sig (and whose URL
\* request construction accepts) gets 404 and an empty body, the Mirror Pool
\* is never invoked for it and no fetch goroutine is started.
C11_SignatureNotFound ==
    (PathEndsIn(SigSuffix) /\ urlValid) =>
      /\ called = {}
      /\ \A i \in Tasks : tpc[i] = "idle"
      /\ written = <<>>
      /\ hpc = "done" => status = StatusNotFound

\* C12 (as claimed): a request whose path ends in .db, once built, causes
\* exactly one upstream GET, without a range header: the Mirror Pool is given
\* no HEAD and no ranged request, no second GET, and no chunk goroutine is
\* started.
C12_ManifestSingleGet ==
    (PathEndsIn(DbSuffix) /\ urlValid) =>
      /\ called \subseteq {"GET"}
      /\ \A i \in Tasks : try[i] <= 1
      /\ \A i \in Tasks \ {0} : tpc[i] = "idle"
      /\ hpc = "done" => called = {"GET"}

\* C13: in handlePlain no body byte reaches the client before a success has
\* been received from the engine, and after an engine failure the client has
\* 502 Bad Gateway and no body byte.
C13_PlainFailure ==
    suffix = "db" =>
      /\ hpc \in {"ServeHTTP", "plainRecv"} => written = <<>> /\ status = 0
      /\ written # <<>> => sent[0] = 1 /\ cur.err = "none"
      /\ abort = "fetch" =>
           /\ hpc = "done"
           /\ status = StatusBadGateway
           /\ written = <<>>

\* C13 witness: the GET of a .db request failed on all its attempts and the
\* handler has answered.
C13_Witness ==
    /\ suffix = "db"
    /\ hpc = "done"
    /\ abort = "fetch"
    /\ cur.err # "none"
    /\ status = StatusBadGateway

\* C14: in handleRefracted the content-length header holds the size the probe
\* declared from before the first body byte is copied to the client.
C14_LengthBeforeBody ==
    suffix = "other" =>
      /\ contentLength \in {-1, size}
      /\ (hpc = "copy" \/ written # <<>>) =>
           /\ contentLength = size
           /\ size = Size

\* C14 witness: the first chunk is about to be copied, nothing is written
\* yet, and the header is set.
C14_Witness ==
    /\ suffix = "other"
    /\ hpc = "copy"
    /\ idx = 1
    /\ written = <<>>
    /\ contentLength = Size
    /\ Size > 0

C16_TimeoutRetriesAttempt ==
    [][\A i \in Tasks :
         /\ (tpc[i] = "request" /\ tpc'[i] = "copy") =>
                deadline'[i] = "armed"
         /\ (deadline[i] = "armed" /\ deadline'[i] = "closed") =>
                UNCHANGED <<tpc, try, req, res, hvars, bvars>>
         /\ (tpc[i] = "copy" /\ deadline[i] = "closed" /\ tpc'[i] # "copy") =>
                /\ IF try[i] < retries
                   THEN tpc'[i] = "request" /\ req'[i] = req[i]
                        /\ try'[i] = try[i]
                   ELSE tpc'[i] = "send" /\ res'[i].err = "timeout"
                /\ \A j \in Tasks \ {i} :
                     /\ tpc'[j] = tpc[j]
                     /\ try'[j] = try[j]
                     /\ res'[j] = res[j]
                     /\ deadline'[j] = deadline[j]
                /\ UNCHANGED hvars
         /\ (tpc[i] # "send" /\ tpc'[i] = "send" /\ res'[i].err = "timeout") =>
                try'[i] = retries
      ]_vars

\* C16 witness: the deadline of an attempt of the second chunk, not the last
\* one, has passed while the first chunk is still being fetched.
C16_Witness ==
    /\ suffix = "other"
    /\ tpc[2] = "copy"
    /\ deadline[2] = "closed"
    /\ try[2] \in 2..(retries - 1)
    /\ tpc[1] = "copy"
    /\ deadline[1] = "armed"

\* C17: a body is copied, and a response delivered as a success, only when
\* the status of the upstream response is 200 for a request without a range
\* and 206 for a request with one; a status failure is reported only by the
\* last attempt.
C17_ExpectedStatus ==
    /\ \A i \in Tasks :
         /\ tpc[i] = "copy" =>
              tresp[i] = IF req[i].lo = -1 THEN StatusOK
                         ELSE StatusPartialContent
         /\ (tpc[i] = "send" /\ res[i].err = "none") =>
              res[i].st = IF req[i].lo = -1 THEN StatusOK
                          ELSE StatusPartialContent
         /\ (tpc[i] = "send" /\ res[i].err = "status") => try[i] = retries
    /\ hpc = "copy" => cur.st = StatusPartialContent
    /\ hpc = "plainCopy" => cur.st = StatusOK

\* C17 witness: one chunk was delivered with status 206 and another chunk
\* failed its last attempt on a status mismatch.
C17_Witness ==
    \E i, j \in Tasks :
      /\ tpc[i] = "send" /\ res[i].err = "none"
      /\ res[i].st = StatusPartialContent
      /\ tpc[j] = "send" /\ res[j].err = "status"

\* C18: a response to a GET delivered as a success carries a pooled buffer
\* that holds the whole body, as many bytes as the declared content length;
\* the body the handler copies to the client is such a buffer; a truncated
\* body is reported as a failure, by the last attempt only.
C18_FullBody ==
    /\ \A i \in Tasks :
         /\ (tpc[i] = "send" /\ res[i].err = "none"
               /\ req[i].method # "HEAD") =>
              /\ res[i].buf # NoBuf
              /\ Len(bufData[res[i].buf]) = res[i].cl
              /\ bufData[res[i].buf] = MirrorBody(req[i])
         /\ (tpc[i] = "send" /\ res[i].err \in {"truncated", "copy", "timeout"})
              => try[i] = retries /\ res[i].buf = NoBuf
    /\ hpc \in {"copy", "plainCopy"} =>
         /\ cur.buf # NoBuf
         /\ Len(bufData[cur.buf]) = cur.cl

\* C18 witness: one chunk was delivered with its whole, non-empty body after
\* a failed attempt, and another chunk failed on a truncated body.
C18_Witness ==
    \E i, j \in Tasks :
      /\ tpc[i] = "send" /\ res[i].err = "none" /\ res[i].cl > 0
      /\ try[i] > 1
      /\ res[i].buf # NoBuf
      /\ bufData[res[i].buf] = MirrorBody(req[i])
      /\ tpc[j] = "send" /\ res[j].err = "truncated"

\* C19: under FairSpec handleRefracted ends for every request routed to it,
\* and returns once the probe has succeeded: no receive of the reassembly
\* loop waits for ever, whatever the order in which the goroutines finish.
C19_HandlerReturns ==
    /\ (suffix = "other") ~> (hpc \in {"done", "panic"})
    /\ (hpc \in {"partition", "reassemble", "copy"}) ~> (hpc = "done")
    /\ \A k \in Tasks :
         (hpc = "reassemble" /\ idx = k) ~> (hpc # "reassemble" \/ idx # k)

\* C19 witness: the reassembly loop waits for the first chunk, which is at
\* a later attempt, while the second chunk is already at its send.
C19_Witness ==
    /\ suffix = "other"
    /\ hpc = "reassemble"
    /\ idx = 1
    /\ tpc[1] \in {"request", "copy"}
    /\ try[1] > 1
    /\ tpc[2] = "send"

\* C20: under FairSpec the watcher of every attempt is released, by the
\* deadline or by the return of the attempt, and the watchers of returned
\* attempts exit; a step of a watcher changes neither a buffer nor a result
\* nor what the client got; the body of a response delivered as a success
\* is the pooled buffer, which holds the whole body as long as the
\* response is waiting to be read.
C20_WatcherLifecycle ==
    /\ \A i \in Tasks : (deadline[i] = "armed") ~> (deadline[i] # "armed")
    /\ zombies ~> ~zombies
    /\ [][((zombies /\ ~zombies')
            \/ \E i \in Tasks : deadline[i] = "armed" /\ deadline'[i] = "closed")
          => UNCHANGED <<bufData, bufState, res, cur, written, tpc>>]_vars
    /\ [](\A i \in Tasks :
            (tpc[i] = "send" /\ res[i].err = "none" /\ req[i].method # "HEAD")
              => /\ res[i].body = "buffer"
                 /\ BodyBytes(res[i]) = MirrorBody(req[i]))
    /\ [](hpc \in {"copy", "plainCopy"} =>
            /\ cur.body = "buffer"
            /\ Len(BodyBytes(cur)) = cur.cl)

\* C20 witness: the only attempt of a .db request has returned a non-empty
\* response, the handler is about to read it, and the watcher of the
\* attempt has yet to close the upstream body.
C20_Witness ==
    /\ suffix = "db"
    /\ hpc = "plainCopy"
    /\ called = {"GET"}
    /\ zombies
    /\ cur.cl > 0
    /\ BodyBytes(cur) = Bytes(0, Size - 1)

====
